---- MODULE Spec2Model ----
(***************************************************************************)
(* PANOC inner solver (src/src/src/panoc.cpp), PANOCSolver::operator().    *)
(*                                                                         *)
(* The solver is modelled for problems of dimension n = 1, m = 1, so a vec *)
(* is one real_t, norm() is the absolute value, squaredNorm() the square   *)
(* and dot() the product.  A real_t is an exact rational or one of the     *)
(* IEEE specials NaN, +Inf, -Inf ("exact arithmetic" with IEEE rules for   *)
(* the specials): [k |-> kind, n |-> numerator, d |-> denominator].        *)
(***************************************************************************)
EXTENDS Integers, Sequences, FiniteSets, TLC

-----------------------------------------------------------------------------
(* real_t.  An operator of the form  CHOOSE r \in {F(v) : v \in {e}} : TRUE *)
(* is F(e) with e evaluated once.                                          *)

Abs(i) == IF i < 0 THEN -i ELSE i

RECURSIVE Gcd(_, _)
Gcd(a, b) == IF b = 0 THEN a ELSE Gcd(b, a % b)

Lcm(a, b) == (a \div Gcd(a, b)) * b

NaN  == [k |-> "nan",  n |-> 0, d |-> 1]
PInf == [k |-> "pinf", n |-> 0, d |-> 1]
NInf == [k |-> "ninf", n |-> 0, d |-> 1]

\* the rational n/d (d # 0) in lowest terms with a positive denominator
QV(n, d, g) ==
    [k |-> "fin", n |-> (IF d < 0 THEN -n ELSE n) \div g, d |-> Abs(d) \div g]

Q(n, d) ==
    CHOOSE r \in {QV(v[1], v[2], Gcd(Abs(v[1]), Abs(v[2]))) :
                     v \in {<<n, d>>}} : TRUE

Z(i)   == [k |-> "fin", n |-> i, d |-> 1]
Zero   == Z(0)
One    == Z(1)
Two    == Z(2)
Half   == Q(1, 2)

IsNaN(a)    == a.k = "nan"
IsFinite(a) == a.k = "fin"
IsInf(a)    == a.k \in {"pinf", "ninf"}

\* sign of a non-NaN value: -1, 0, 1
Sgn(a) ==
    CASE a.k = "pinf" -> 1
      [] a.k = "ninf" -> -1
      [] OTHER -> IF a.n > 0 THEN 1 ELSE IF a.n < 0 THEN -1 ELSE 0

InfOfSign(s) == IF s > 0 THEN PInf ELSE NInf

NegV(a) ==
    CASE a.k = "nan"  -> NaN
      [] a.k = "pinf" -> NInf
      [] a.k = "ninf" -> PInf
      [] OTHER -> [k |-> "fin", n |-> -a.n, d |-> a.d]

FNeg(a) == CHOOSE r \in {NegV(w) : w \in {a}} : TRUE

AddV(a, b) ==
    IF IsNaN(a) \/ IsNaN(b) THEN NaN
    ELSE IF IsInf(a) /\ IsInf(b) THEN (IF a.k = b.k THEN a ELSE NaN)
    ELSE IF IsInf(a) THEN a
    ELSE IF IsInf(b) THEN b
    ELSE Q(a.n * (Lcm(a.d, b.d) \div a.d) + b.n * (Lcm(a.d, b.d) \div b.d),
           Lcm(a.d, b.d))

FAdd(a, b) == CHOOSE r \in {AddV(v[1], v[2]) : v \in {<<a, b>>}} : TRUE

FSub(a, b) == FAdd(a, FNeg(b))

MulV(a, b) ==
    IF IsNaN(a) \/ IsNaN(b) THEN NaN
    ELSE IF IsInf(a) \/ IsInf(b)
         THEN (IF Sgn(a) = 0 \/ Sgn(b) = 0 THEN NaN
               ELSE InfOfSign(Sgn(a) * Sgn(b)))
    ELSE Q((a.n \div Gcd(Abs(a.n), b.d)) * (b.n \div Gcd(Abs(b.n), a.d)),
           (a.d \div Gcd(Abs(b.n), a.d)) * (b.d \div Gcd(Abs(a.n), b.d)))

FMul(a, b) == CHOOSE r \in {MulV(v[1], v[2]) : v \in {<<a, b>>}} : TRUE

DivV(a, b) ==
    IF IsNaN(a) \/ IsNaN(b) THEN NaN
    ELSE IF IsInf(a) /\ IsInf(b) THEN NaN
    ELSE IF IsInf(a) THEN InfOfSign(Sgn(a) * (IF Sgn(b) < 0 THEN -1 ELSE 1))
    ELSE IF IsInf(b) THEN Zero
    ELSE IF b.n = 0 THEN (IF a.n = 0 THEN NaN ELSE InfOfSign(Sgn(a)))
    ELSE MulV(a, Q(b.d, b.n))

FDiv(a, b) == CHOOSE r \in {DivV(v[1], v[2]) : v \in {<<a, b>>}} : TRUE

\* comparisons: every comparison with a NaN operand is false
LtV(a, b) ==
    IF IsNaN(a) \/ IsNaN(b) THEN FALSE
    ELSE IF a.k = "pinf" \/ b.k = "ninf" THEN FALSE
    ELSE IF a.k = "ninf" \/ b.k = "pinf" THEN TRUE
    ELSE a.n * (Lcm(a.d, b.d) \div a.d) < b.n * (Lcm(a.d, b.d) \div b.d)

FLt(a, b) == CHOOSE r \in {LtV(v[1], v[2]) : v \in {<<a, b>>}} : TRUE

LeV(a, b) ==
    IF IsNaN(a) \/ IsNaN(b) THEN FALSE
    ELSE a = b \/ LtV(a, b)

FLe(a, b) == CHOOSE r \in {LeV(v[1], v[2]) : v \in {<<a, b>>}} : TRUE

FGt(a, b) == FLt(b, a)
FGe(a, b) == FLe(b, a)

\* std::fmax / std::fmin: a NaN operand is ignored
MaxV(a, b) == IF IsNaN(a) THEN b ELSE IF IsNaN(b) THEN a
              ELSE IF LtV(a, b) THEN b ELSE a
MinV(a, b) == IF IsNaN(a) THEN b ELSE IF IsNaN(b) THEN a
              ELSE IF LtV(b, a) THEN b ELSE a

Fmax(a, b) == CHOOSE r \in {MaxV(v[1], v[2]) : v \in {<<a, b>>}} : TRUE
Fmin(a, b) == CHOOSE r \in {MinV(v[1], v[2]) : v \in {<<a, b>>}} : TRUE

AbsV(a) == IF IsNaN(a) THEN NaN ELSE IF Sgn(a) < 0 THEN NegV(a) ELSE a

FAbs(a) == CHOOSE r \in {AbsV(w) : w \in {a}} : TRUE

\* vec kernels for n = 1
SquareV(v) == MulV(v, v)
SquaredNorm(v) == CHOOSE r \in {SquareV(w) : w \in {v}} : TRUE
Norm(v)        == FAbs(v)
NormInf(v)     == FAbs(v)
Dot(u, v)      == FMul(u, v)
HasNaN(v)      == IsNaN(v)

-----------------------------------------------------------------------------
(* Problem: the caller's oracles and the boxes C and D (n = m = 1).         *)
(* f(x) = fa/2 x^2 + fb x, g(x) = x; f returns NaN below f_nan and grad_f   *)
(* returns grad_bad below grad_nan (a non-finite oracle).                   *)

Box(l, u) == [lowerbound |-> l, upperbound |-> u]

Prob_f(p, x) ==
    IF FLt(x, p.f_nan) THEN NaN
    ELSE FAdd(FMul(FMul(Q(p.fa, 2), x), x), FMul(Z(p.fb), x))

Prob_grad_f(p, x) ==
    IF FLt(x, p.grad_nan) THEN p.grad_bad
    ELSE FAdd(FMul(Z(p.fa), x), Z(p.fb))

Prob_g(p, x) == x

\* grad_g(x, v) = (dg/dx)^T v
Prob_grad_g(p, x, v) == v

\* box.hpp: componentwise clamp, and v - project(v, box)
project(v, box) == Fmin(Fmax(v, box.lowerbound), box.upperbound)

projecting_difference(v, box) ==
    CHOOSE r \in {FSub(w, project(w, box)) : w \in {v}} : TRUE

InBox(v, box) == FLe(box.lowerbound, v) /\ FLe(v, box.upperbound)

-----------------------------------------------------------------------------
(* namespace detail *)

\* psi(x) and yhat(x): [psi, yhat]
calc_psi_yhat(p, x, y, Sig) ==
    CHOOSE r \in
      { [psi  |-> FAdd(Prob_f(p, x),
                       FMul(Half, FAdd(Zero, FMul(FMul(d, Sig), d)))),
         yhat |-> FMul(Sig, d)] :
          d \in {projecting_difference(FAdd(Prob_g(p, x), FDiv(y, Sig)),
                                       p.D)} } : TRUE

calc_grad_psi_from_yhat(p, x, yhat) ==
    FAdd(Prob_grad_f(p, x), Prob_grad_g(p, x, yhat))

\* [psi, grad_psi]
calc_psi_grad_psi(p, x, y, Sig) ==
    CHOOSE r \in
      { [psi      |-> w.psi,
         grad_psi |-> calc_grad_psi_from_yhat(p, x, w.yhat)] :
          w \in {calc_psi_yhat(p, x, y, Sig)} } : TRUE

calc_grad_psi(p, x, y, Sig) ==
    FAdd(Prob_grad_f(p, x),
         Prob_grad_g(p, x,
             FMul(Sig, projecting_difference(FAdd(Prob_g(p, x), FDiv(y, Sig)),
                                             p.D))))

\* [zhat, err_z]
calc_zhat(p, xhat, y, Sig) ==
    CHOOSE r \in
      { [zhat |-> zh, err_z |-> FSub(Prob_g(p, xhat), zh)] :
          zh \in {project(FAdd(Prob_g(p, xhat), FDiv(y, Sig)), p.D)} } : TRUE

\* the upper clamp of calc_xhat left out
calc_xhat_NoUpper(p, gamma, x, grad_psi) ==
    CHOOSE r \in
      { [xhat |-> FAdd(x, pp), p |-> pp] :
          pp \in {Fmax(FMul(FNeg(gamma), grad_psi),
                       FSub(p.C.lowerbound, x))} } : TRUE

\* projected gradient step: [xhat, p]
calc_xhat(p, gamma, x, grad_psi) ==
    CHOOSE r \in
      { [xhat |-> FAdd(x, pp), p |-> pp] :
          pp \in {Fmin(Fmax(FMul(FNeg(gamma), grad_psi),
                            FSub(p.C.lowerbound, x)),
                       FSub(p.C.upperbound, x))} } : TRUE

calc_error_stop_crit(p_k, gamma, grad_hat_psi_k, grad_psi_k) ==
    NormInf(FAdd(FMul(FDiv(One, gamma), p_k),
                 FSub(grad_hat_psi_k, grad_psi_k)))

-----------------------------------------------------------------------------
(* lbfgs.hpp: LBFGS and SpecializedLBFGS.  A buffer is a sequence of pairs *)
(* [s, y], oldest first.                                                   *)

\* std::numeric_limits<real_t>::epsilon(), scaled to 2^-10
epsilon == Q(1, 1024)

RECURSIVE LBFGS_loop1(_, _, _)
\* newest to oldest: alpha_i = rho_i <s_i, q>, q -= alpha_i y_i
LBFGS_loop1(buf, i, r) ==
    IF i = 0 THEN r
    ELSE CHOOSE o \in
           { LBFGS_loop1(buf, i - 1,
                 [q |-> FSub(r.q, FMul(alpha, buf[i].y)),
                  alpha |-> <<alpha>> \o r.alpha]) :
               alpha \in {FMul(FDiv(One, Dot(buf[i].s, buf[i].y)),
                               Dot(buf[i].s, r.q))} } : TRUE

RECURSIVE LBFGS_loop2(_, _, _, _)
\* oldest to newest: beta_i = rho_i <y_i, q>, q += (alpha_i - beta_i) s_i
LBFGS_loop2(buf, i, alpha, q) ==
    IF i > Len(buf) THEN q
    ELSE CHOOSE o \in
           { LBFGS_loop2(buf, i + 1, alpha, qq) :
               qq \in {FAdd(q, FMul(FSub(alpha[i],
                                         FMul(FDiv(One, Dot(buf[i].s, buf[i].y)),
                                              Dot(buf[i].y, q))),
                                    buf[i].s))} } : TRUE

\* q := H q (two-loop recursion); an empty buffer leaves q unchanged
LBFGS_apply(buf, q) ==
    IF Len(buf) = 0 THEN q
    ELSE CHOOSE o \in
           { LBFGS_loop2(buf, 1, r1.alpha,
                 FMul(FDiv(Dot(buf[Len(buf)].s, buf[Len(buf)].y),
                           Dot(buf[Len(buf)].y, buf[Len(buf)].y)), r1.q)) :
               r1 \in {LBFGS_loop1(buf, Len(buf),
                                   [q |-> q, alpha |-> <<>>])} } : TRUE

\* what apply can leave in q: the value of the two-loop recursion, or, when
\* the products with the stored pairs overflow, +Inf or (Inf - Inf) NaN;
\* an empty buffer leaves q = p
LBFGS_apply_results(buf, q) ==
    IF Len(buf) = 0 THEN {q}
    ELSE {LBFGS_apply(buf, q), PInf, NaN}

\* update without the curvature test: every finite pair is stored
LBFGS_accepts_FiniteOnly(s, y) == IsFinite(s) /\ IsFinite(y)

\* the curvature test of update
LBFGS_accepts(s, y) ==
    /\ IsFinite(s) /\ IsFinite(y)
    /\ FGt(Dot(s, y), FMul(epsilon, FMul(Norm(y), Norm(s))))

LBFGS_push(buf, s, y, mem) ==
    LET b == Append(buf, [s |-> s, y |-> y])
    IN  IF Len(b) > mem THEN Tail(b) ELSE b

\* [buf, ok]
LBFGS_update(buf, s, y, mem) ==
    CHOOSE r \in
      { IF LBFGS_accepts(v[1], v[2])
        THEN [buf |-> LBFGS_push(buf, v[1], v[2], mem), ok |-> TRUE]
        ELSE [buf |-> buf, ok |-> FALSE] : v \in {<<s, y>>} } : TRUE

\* SpecializedLBFGS keeps the last point to form s and y itself
SLBFGS_initialize(sl, x, grad, xhat, gamma) ==
    [buf |-> <<>>, x |-> x, grad |-> grad, xhat |-> xhat, gamma |-> gamma]

SLBFGS_reset(sl) == [sl EXCEPT !.buf = <<>>]

\* [sl, ok]: s = x1 - x, y = p(x) - p(x1) with p(x) taken at the new gamma
SLBFGS_pold(sl, C, gamma1) ==
    IF gamma1 = sl.gamma THEN FSub(sl.xhat, sl.x)
    ELSE Fmin(Fmax(FMul(FNeg(gamma1), sl.grad), FSub(C.lowerbound, sl.x)),
              FSub(C.upperbound, sl.x))

SLBFGS_update(sl, x1, grad1, xhat1, C, gamma1, mem) ==
    CHOOSE r \in
      { [sl |-> [buf |-> IF LBFGS_accepts(v[1], v[2])
                         THEN LBFGS_push(sl.buf, v[1], v[2], mem)
                         ELSE sl.buf,
                 x |-> x1, grad |-> grad1, xhat |-> xhat1, gamma |-> gamma1],
         ok |-> LBFGS_accepts(v[1], v[2])] :
          v \in {<<FSub(x1, sl.x),
                   FSub(SLBFGS_pold(sl, C, gamma1), FSub(xhat1, x1))>>} } : TRUE

-----------------------------------------------------------------------------
(* PANOCSolver::operator() *)

VARIABLES
    problem, Sigma, eps, params,      \* arguments and configuration
    x, y, z, err_z,                   \* the caller's vectors
    s,                                \* Stats
    stop_signal, clock,               \* the stop flag; the steady clock
    stop_k,                           \* history: k when the flag was set
    reset_by,                         \* history: the lbfgs.reset() calls of this iteration
    cands,                            \* history: the line search candidates of this iteration
    updates,                          \* history: the number of L-BFGS updates attempted
    pc, k,
    x_k, xhat_k, x_k1, xhat_k1, yhat_xhat_k, yhat_xhat_k1,
    p_k, p_k1, q_k, grad_psi_k, grad_hat_psi_k, grad_psi_k1,
    psi_k, psihat_x_k, L_k, gamma_k, sigma_k,
    grad_psi_k_T_p_k, norm_sq_p_k, phi_k,
    eps_k, time_elapsed, out_of_time,
    sigma_norm_gamma_inv_p_k, tau, ls_cond,
    phi_k1, psi_k1, psihat_x_k1, grad_psi_k1_T_p_k1, norm_sq_p_k1,
    L_k1, sigma_k1, gamma_k1,
    lbfgs, slbfgs,
    y_in, gamma_0,                    \* history: y on entry, the first gamma
    x_in                              \* history: x on entry

argVars   == <<problem, Sigma, eps, params, y_in, x_in>>
outVars   == <<x, y, z, err_z>>
iterVars  == <<x_k, xhat_k, yhat_xhat_k, p_k, grad_psi_k, psi_k, psihat_x_k,
               L_k, gamma_k, sigma_k, grad_psi_k_T_p_k, norm_sq_p_k, phi_k>>
nextVars  == <<x_k1, xhat_k1, yhat_xhat_k1, p_k1, grad_psi_k1, psi_k1,
               psihat_x_k1, grad_psi_k1_T_p_k1, norm_sq_p_k1, phi_k1,
               L_k1, sigma_k1, gamma_k1>>
stopVars  == <<grad_hat_psi_k, eps_k, time_elapsed, out_of_time>>
lsVars    == <<sigma_norm_gamma_inv_p_k, tau, ls_cond, q_k>>
bufVars   == <<lbfgs, slbfgs>>
flagVars  == <<stop_signal, stop_k>>

vars == <<argVars, outVars, s, flagVars, reset_by, cands, updates, clock, pc, k, iterVars, nextVars,
          stopVars, lsVars, bufVars, gamma_0>>

\* a vector or scalar that has not been assigned
Uninit == [k |-> "uninit", n |-> 0, d |-> 1]

-----------------------------------------------------------------------------
(* bounds of the model and the inputs drawn in Init *)

MaxIter    == 2
MaxElapsed == 1

Reals1 == Box(NInf, PInf)

NoFault == [f_nan |-> NInf, grad_nan |-> NInf, grad_bad |-> NaN]

\* below the threshold t: f is NaN, or grad_f is NaN, or grad_f is +Inf
Faults ==
    UNION { { [f_nan |-> t, grad_nan |-> NInf, grad_bad |-> NaN],
              [f_nan |-> NInf, grad_nan |-> t, grad_bad |-> NaN],
              [f_nan |-> NInf, grad_nan |-> t, grad_bad |-> PInf] } :
            t \in {Z(3), Q(3, 2)} }

MkProblem(a, b, ft, c, dd) ==
    [fa |-> a, fb |-> b, f_nan |-> ft.f_nan, grad_nan |-> ft.grad_nan,
     grad_bad |-> ft.grad_bad, C |-> c, D |-> dd]

\* f(x) = x^2/2 - 4x on C = [-1, 2] with D = (-inf, 1]: from x0 = -3 the
\* quasi-Newton candidates of iteration 1 overshoot C
Overshoot == MkProblem(1, -4, NoFault, Box(Z(-1), Two), Box(NInf, One))

Problems ==
    { MkProblem(ab[1], ab[2], NoFault, c, dd) :
        ab \in {<<1, 0>>, <<1, 4>>, <<0, 4>>},
        c \in {Reals1, Box(Zero, One)},
        dd \in {Reals1, Box(One, PInf)} }
    \cup
    { MkProblem(1, b, ft, Reals1, Reals1) : b \in {0, 4}, ft \in Faults }
    \cup
    { Overshoot }

Params ==
    [ max_iter : {0, MaxIter},
      max_time : {0},
      tau_min  : {Q(1, 4), One},
      Lipschitz : [eps : {Q(1, 4)}, delta : {Q(1, 4)}, Lgamma_factor : {Half}],
      update_lipschitz_in_linesearch : BOOLEAN,
      specialized_lbfgs : BOOLEAN,
      lbfgs_mem : {1, 2} ]

NoStats ==
    [iterations |-> -1, eps |-> Uninit, elapsed_time |-> -1,
     status |-> "Unknown",
     linesearch_failures |-> 0, lbfgs_failures |-> 0, lbfgs_rejected |-> 0]

Init ==
    /\ problem \in Problems
    /\ Sigma = One
    /\ eps \in {Q(1, 4), Two}
    /\ params \in Params
    /\ x \in (IF problem = Overshoot THEN {Z(-3)} ELSE {Z(-1), Z(4)})
    /\ y \in (IF problem = Overshoot THEN {Z(-1)} ELSE {Zero, One})
    /\ (problem.D = Reals1 => y = Zero)
    /\ y_in = y
    /\ x_in = x
    /\ z = Uninit /\ err_z = Uninit
    /\ s = NoStats
    /\ stop_signal = FALSE
    /\ stop_k = -1
    /\ reset_by = {}
    /\ cands = <<>>
    /\ updates = 0
    /\ clock = 0
    /\ pc = "entry"
    /\ k = 0
    /\ x_k = Uninit /\ xhat_k = Uninit /\ x_k1 = Uninit /\ xhat_k1 = Uninit
    /\ yhat_xhat_k = Uninit /\ yhat_xhat_k1 = Uninit
    /\ p_k = Uninit /\ p_k1 = Uninit /\ q_k = Uninit
    /\ grad_psi_k = Uninit /\ grad_hat_psi_k = Uninit /\ grad_psi_k1 = Uninit
    /\ psi_k = Uninit /\ psihat_x_k = Uninit
    /\ L_k = Uninit /\ gamma_k = Uninit /\ sigma_k = Uninit
    /\ grad_psi_k_T_p_k = Uninit /\ norm_sq_p_k = Uninit /\ phi_k = Uninit
    /\ eps_k = Uninit /\ time_elapsed = 0 /\ out_of_time = FALSE
    /\ sigma_norm_gamma_inv_p_k = Uninit /\ tau = Uninit /\ ls_cond = Uninit
    /\ phi_k1 = Uninit /\ psi_k1 = Uninit /\ psihat_x_k1 = Uninit
    /\ grad_psi_k1_T_p_k1 = Uninit /\ norm_sq_p_k1 = Uninit
    /\ L_k1 = Uninit /\ sigma_k1 = Uninit /\ gamma_k1 = Uninit
    /\ lbfgs = <<>>
    /\ slbfgs = [buf |-> <<>>, x |-> Uninit, grad |-> Uninit,
                 xhat |-> Uninit, gamma |-> Uninit]
    /\ gamma_0 = Uninit

-----------------------------------------------------------------------------
(* helpers shared by Step A and the line search *)

\* psihat > psi + margin + grad^T p + 0.5 L ||p||^2
QubViolated(psihat, psi, gTp, L, nsq) ==
    FGt(psihat, FAdd(FAdd(FAdd(psi, Zero), gTp), FMul(FMul(Half, L), nsq)))

\* L *= 2 without the matching sigma /= 2
HalveStep_KeepSigma(L, sigma, gamma) ==
    [L |-> FMul(L, Two), sigma |-> sigma, gamma |-> FDiv(gamma, Two)]

\* L *= 2; sigma /= 2; gamma /= 2
HalveStep(L, sigma, gamma) ==
    [L |-> FMul(L, Two), sigma |-> FDiv(sigma, Two), gamma |-> FDiv(gamma, Two)]

\* forward-backward envelope psi + 1/(2 gamma) ||p||^2 + grad^T p
FBE(psi, gamma, nsq, gTp) ==
    FAdd(FAdd(psi, FMul(FDiv(One, FMul(Two, gamma)), nsq)), gTp)

-----------------------------------------------------------------------------
(* lines 183-251: entry and Lipschitz bootstrap *)

\* lines 228-229: the clamp of the Lipschitz estimate
BootstrapL(L0) == IF FLt(L0, epsilon) THEN epsilon ELSE L0

\* h = (x * eps).cwiseAbs().cwiseMax(delta)
Perturbation_AbsoluteOnly(xx, eps_L, delta) == delta

Perturbation(xx, eps_L, delta) == Fmax(FAbs(FMul(xx, eps_L)), delta)

Bootstrap ==
    /\ pc = "entry"
    /\ \E h \in {Perturbation(x, params.Lipschitz.eps,
                              params.Lipschitz.delta)} :
       \E g1 \in {calc_grad_psi(problem, FAdd(x, h), y, Sigma)} :
       \E r0 \in {calc_psi_grad_psi(problem, x, y, Sigma)} :
       \E L0 \in {FDiv(Norm(FSub(g1, r0.grad_psi)), Norm(h))} :
       \E L \in {BootstrapL(L0)} :
       \E gm \in {FDiv(params.Lipschitz.Lgamma_factor, L)} :
       \E xp \in {calc_xhat(problem, gm, x, r0.grad_psi)} :
       \E ph \in {calc_psi_yhat(problem, xp.xhat, y, Sigma)} :
       \E gTp \in {Dot(r0.grad_psi, xp.p)} :
       \E nsq \in {SquaredNorm(xp.p)} :
           /\ x_k' = x
           /\ x' = FAdd(x, h)
           /\ grad_psi_k1' = g1
           /\ psi_k' = r0.psi
           /\ grad_psi_k' = r0.grad_psi
           /\ L_k' = L
           /\ IF ~FLt(L0, epsilon) /\ ~IsFinite(L0)
              THEN /\ s' = [s EXCEPT !.status = "NotFinite"]
                   /\ pc' = "done"
                   /\ UNCHANGED <<gamma_k, sigma_k, xhat_k, p_k, psihat_x_k,
                                  yhat_xhat_k, grad_psi_k_T_p_k, norm_sq_p_k,
                                  phi_k, gamma_0>>
              ELSE /\ gamma_k' = gm
                   /\ gamma_0' = gm
                   /\ sigma_k' = FDiv(FMul(gm, FSub(One, FMul(gm, L))), Two)
                   /\ xhat_k' = xp.xhat
                   /\ p_k' = xp.p
                   /\ psihat_x_k' = ph.psi
                   /\ yhat_xhat_k' = ph.yhat
                   /\ grad_psi_k_T_p_k' = gTp
                   /\ norm_sq_p_k' = nsq
                   /\ phi_k' = FBE(r0.psi, gm, nsq, gTp)
                   /\ s' = s
                   /\ pc' = "stepA"
    /\ k' = 0
    /\ UNCHANGED <<updates, reset_by, cands, argVars, y, z, err_z, flagVars, clock, stopVars, lsVars,
                   bufVars, x_k1, xhat_k1, yhat_xhat_k1, p_k1, psi_k1,
                   psihat_x_k1, grad_psi_k1_T_p_k1, norm_sq_p_k1, phi_k1,
                   L_k1, sigma_k1, gamma_k1>>

-----------------------------------------------------------------------------
(* lines 255-277: Step A, the quadratic upper bound at x_k *)

\* Step A at the first iteration only
StepAActive_FirstOnly == k = 0

StepAActive == k = 0 \/ params.update_lipschitz_in_linesearch = FALSE

\* lines 262-264: the flush of the L-BFGS buffer in Step A
StepAResets(kk, specialized) == kk > 0 /\ specialized = FALSE

StepAShrink ==
    /\ pc = "stepA"
    /\ StepAActive
    /\ QubViolated(psihat_x_k, psi_k, grad_psi_k_T_p_k, L_k, norm_sq_p_k)
    /\ \E h \in {HalveStep(L_k, sigma_k, gamma_k)} :
       \E xp \in {calc_xhat(problem, h.gamma, x_k, grad_psi_k)} :
       \E ph \in {calc_psi_yhat(problem, xp.xhat, y, Sigma)} :
           /\ L_k' = h.L
           /\ sigma_k' = h.sigma
           /\ gamma_k' = h.gamma
           /\ lbfgs' = IF StepAResets(k, params.specialized_lbfgs)
                       THEN <<>> ELSE lbfgs
           /\ reset_by' = IF StepAResets(k, params.specialized_lbfgs)
                          THEN reset_by \cup {"stepA"} ELSE reset_by
           /\ xhat_k' = xp.xhat
           /\ p_k' = xp.p
           /\ grad_psi_k_T_p_k' = Dot(grad_psi_k, xp.p)
           /\ norm_sq_p_k' = SquaredNorm(xp.p)
           /\ psihat_x_k' = ph.psi
           /\ yhat_xhat_k' = ph.yhat
    /\ UNCHANGED <<updates, cands, argVars, outVars, s, flagVars, clock, pc, k, nextVars,
                   stopVars, lsVars, slbfgs, gamma_0,
                   x_k, grad_psi_k, psi_k, phi_k>>

\* the loop of Step A is left, or Step A is skipped
StepAExit ==
    /\ pc = "stepA"
    /\ ~(StepAActive /\
         QubViolated(psihat_x_k, psi_k, grad_psi_k_T_p_k, L_k, norm_sq_p_k))
    /\ pc' = "stop"
    /\ UNCHANGED <<updates, reset_by, cands, argVars, outVars, s, flagVars, clock, k, iterVars,
                   nextVars, stopVars, lsVars, bufVars, gamma_0>>

-----------------------------------------------------------------------------
(* lines 279-379: Step B, the stopping residual and the termination test *)

\* line 303 without the test k == max_iter
Exits_NoMaxIter(epsk, tol, kk, max_iter, oot) == FLe(epsk, tol) \/ oot

\* line 303: the first termination branch is taken
Exits(epsk, tol, kk, max_iter, oot) ==
    FLe(epsk, tol) \/ kk = max_iter \/ oot

\* the status of a MaxIter exit taken for MaxTime and the reverse
ExitStatus_Swapped(epsk, tol, kk, max_iter, oot) ==
    IF FLe(epsk, tol) THEN "Converged"
    ELSE IF kk = max_iter THEN "MaxIter" ELSE "MaxTime"

\* every exit that is not out of time reported as converged
ExitStatus_ConvergedFirst(epsk, tol, kk, max_iter, oot) ==
    IF oot THEN "MaxTime" ELSE "Converged"

\* lines 344-346
ExitStatus(epsk, tol, kk, max_iter, oot) ==
    IF FLe(epsk, tol) THEN "Converged"
    ELSE IF oot THEN "MaxTime" ELSE "MaxIter"

\* line 348
NotFiniteExit(epsk) == ~IsFinite(epsk)

\* y overwritten by yhat(xhat_k) before calc_zhat reads it
WriteOutputs_YFirst ==
    \E zz \in {calc_zhat(problem, xhat_k, yhat_xhat_k, Sigma)} :
        /\ z' = zz.zhat
        /\ err_z' = zz.err_z
        /\ x' = xhat_k
        /\ y' = yhat_xhat_k

\* lines 337-339, 370-372: z, err_z, x, y written from xhat_k
WriteOutputs ==
    \E zz \in {calc_zhat(problem, xhat_k, y, Sigma)} :
        /\ z' = zz.zhat
        /\ err_z' = zz.err_z
        /\ x' = xhat_k
        /\ y' = yhat_xhat_k

StopTest ==
    /\ pc = "stop"
    /\ slbfgs' = IF params.specialized_lbfgs = TRUE /\ k = 0
                 THEN SLBFGS_initialize(slbfgs, x_k, grad_psi_k, xhat_k,
                                        gamma_k)
                 ELSE slbfgs
    /\ \E dt \in {0, 1} :
         \E gh \in {calc_grad_psi_from_yhat(problem, xhat_k, yhat_xhat_k)} :
         \E ek \in {calc_error_stop_crit(p_k, gamma_k, gh, grad_psi_k)} :
         \E t \in {IF clock + dt > MaxElapsed THEN MaxElapsed
                   ELSE clock + dt} :
         \E oot \in {t > params.max_time} :
             /\ grad_hat_psi_k' = gh
             /\ eps_k' = ek
             /\ clock' = t
             /\ time_elapsed' = t
             /\ out_of_time' = oot
             /\ IF Exits(ek, eps, k, params.max_iter, oot)
                THEN /\ WriteOutputs
                     /\ s' = [s EXCEPT
                               !.iterations = k, !.eps = ek,
                               !.elapsed_time = t,
                               !.status = ExitStatus(ek, eps, k,
                                                     params.max_iter, oot)]
                     /\ pc' = "done"
                ELSE IF NotFiniteExit(ek)
                THEN /\ s' = [s EXCEPT
                               !.iterations = k, !.eps = ek,
                               !.elapsed_time = t, !.status = "NotFinite"]
                     /\ pc' = "done"
                     /\ UNCHANGED outVars
                ELSE /\ pc' = "poll"
                     /\ UNCHANGED <<s, outVars>>
    /\ UNCHANGED <<updates, reset_by, cands, argVars, flagVars, k, iterVars, nextVars, lsVars,
                   lbfgs, gamma_0>>

\* the flag is never seen
StopRequested_Never(flag) == FALSE

\* line 369: stop_signal.load(std::memory_order_relaxed)
StopRequested(flag) == flag

Poll ==
    /\ pc = "poll"
    /\ IF StopRequested(stop_signal)
       THEN /\ WriteOutputs
            /\ s' = [s EXCEPT
                      !.iterations = k, !.eps = eps_k,
                      !.elapsed_time = time_elapsed,
                      !.status = "Interrupted"]
            /\ pc' = "done"
       ELSE /\ pc' = "qn"
            /\ UNCHANGED <<s, outVars>>
    /\ UNCHANGED <<updates, reset_by, cands, argVars, flagVars, clock, k, iterVars, nextVars,
                   stopVars, lsVars, bufVars, gamma_0>>

\* PANOCSolver::stop(), called from another thread
RequestStop ==
    /\ stop_signal = FALSE
    /\ pc # "done"
    /\ stop_signal' = TRUE
    /\ stop_k' = k
    /\ UNCHANGED <<updates, reset_by, cands, argVars, outVars, s, clock, pc, k, iterVars, nextVars,
                   stopVars, lsVars, bufVars, gamma_0>>

-----------------------------------------------------------------------------
(* lines 381-401: the quasi-Newton step *)

\* the flush and the failure count for every direction of an iteration k > 0
QnInvalid_Always(kk, q) == kk # 0

\* lines 395-397: the direction of an iteration k > 0 fails the validity test
QnInvalid(kk, q) == kk # 0 /\ HasNaN(q)

\* an invalid q counted but the line search still started at tau = 1
InitialTau_IgnoreInvalid(kk, invalid) == IF kk = 0 THEN Zero ELSE One

\* the first iteration starting its line search at tau = 1 like the others
InitialTau_One(kk, invalid) == IF invalid THEN Zero ELSE One

\* lines 390-398: tau = 1, except tau = 0 at k = 0 and after an invalid q
InitialTau(kk, invalid) == IF kk = 0 \/ invalid THEN Zero ELSE One

QuasiNewton ==
    /\ pc = "qn"
    /\ \E q \in (IF k > 0
                  THEN (IF params.specialized_lbfgs
                        THEN LBFGS_apply_results(slbfgs.buf, p_k)
                        ELSE LBFGS_apply_results(lbfgs, p_k))
                  ELSE {q_k}) :
       \E bad \in {QnInvalid(k, q)} :
           /\ q_k' = q
           /\ sigma_norm_gamma_inv_p_k' =
                  FDiv(FMul(sigma_k, norm_sq_p_k), FMul(gamma_k, gamma_k))
           /\ tau' = InitialTau(k, bad)
           /\ s' = IF bad
                   THEN [s EXCEPT !.lbfgs_failures = @ + 1]
                   ELSE s
           /\ lbfgs' = IF bad /\ ~params.specialized_lbfgs THEN <<>> ELSE lbfgs
           /\ reset_by' = IF bad /\ ~params.specialized_lbfgs
                          THEN reset_by \cup {"qn"} ELSE reset_by
           /\ slbfgs' = IF bad /\ params.specialized_lbfgs
                        THEN SLBFGS_reset(slbfgs) ELSE slbfgs
    /\ pc' = "ls"
    /\ UNCHANGED <<updates, cands, argVars, outVars, flagVars, clock, k, iterVars,
                   nextVars, stopVars, ls_cond, gamma_0>>

-----------------------------------------------------------------------------
(* lines 404-459: the line search loop *)

\* line 410: the candidate is the prox step
ProxCandidate(t, tau_min) == FLt(FDiv(t, Two), tau_min)

LsCandidate ==
    /\ pc = "ls"
    /\ \E prox \in {ProxCandidate(tau, params.tau_min)} :
       \E xn \in {IF prox THEN xhat_k
                   ELSE FAdd(FAdd(x_k, FMul(FSub(One, tau), p_k)),
                             FMul(tau, q_k))} :
       \E r \in {calc_psi_grad_psi(problem, xn, y, Sigma)} :
       \E xp \in {calc_xhat(problem, gamma_k, xn, r.grad_psi)} :
       \E ph \in {calc_psi_yhat(problem, xp.xhat, y, Sigma)} :
           /\ L_k1' = L_k
           /\ sigma_k1' = sigma_k
           /\ gamma_k1' = gamma_k
           /\ x_k1' = xn
           /\ xhat_k' = IF prox THEN x_k1 ELSE xhat_k
           /\ cands' = Append(cands, [tau |-> tau, prox |-> prox])
           /\ psi_k1' = r.psi
           /\ grad_psi_k1' = r.grad_psi
           /\ xhat_k1' = xp.xhat
           /\ p_k1' = xp.p
           /\ psihat_x_k1' = ph.psi
           /\ yhat_xhat_k1' = ph.yhat
           /\ grad_psi_k1_T_p_k1' = Dot(r.grad_psi, xp.p)
           /\ norm_sq_p_k1' = SquaredNorm(xp.p)
    /\ pc' = "ls_qub"
    /\ UNCHANGED <<updates, reset_by, argVars, outVars, s, flagVars, clock, k, stopVars,
                   lsVars, bufVars, gamma_0, phi_k1,
                   x_k, yhat_xhat_k, p_k, grad_psi_k, psi_k, psihat_x_k,
                   L_k, gamma_k, sigma_k, grad_psi_k_T_p_k, norm_sq_p_k,
                   phi_k>>

LsShrinkActive ==
    /\ params.update_lipschitz_in_linesearch = TRUE
    /\ QubViolated(psihat_x_k1, psi_k1, grad_psi_k1_T_p_k1, L_k1,
                   norm_sq_p_k1)

\* the shrink in the line search without the flush
LsShrinkResets_Never(specialized) == FALSE

\* lines 437-439: the flush of the L-BFGS buffer in the line search
LsShrinkResets(specialized) == specialized = FALSE

\* lines 432-450: the quadratic upper bound at the candidate
LsShrink ==
    /\ pc = "ls_qub"
    /\ LsShrinkActive
    /\ \E h \in {HalveStep(L_k1, sigma_k1, gamma_k1)} :
       \E xp \in {calc_xhat(problem, h.gamma, x_k1, grad_psi_k1)} :
       \E ph \in {calc_psi_yhat(problem, xp.xhat, y, Sigma)} :
           /\ L_k1' = h.L
           /\ sigma_k1' = h.sigma
           /\ gamma_k1' = h.gamma
           /\ lbfgs' = IF LsShrinkResets(params.specialized_lbfgs)
                       THEN <<>> ELSE lbfgs
           /\ reset_by' = IF LsShrinkResets(params.specialized_lbfgs)
                          THEN reset_by \cup {"ls"} ELSE reset_by
           /\ xhat_k1' = xp.xhat
           /\ p_k1' = xp.p
           /\ grad_psi_k1_T_p_k1' = Dot(grad_psi_k1, xp.p)
           /\ norm_sq_p_k1' = SquaredNorm(xp.p)
           /\ psihat_x_k1' = ph.psi
           /\ yhat_xhat_k1' = ph.yhat
    /\ UNCHANGED <<updates, cands, argVars, outVars, s, flagVars, clock, pc, k, iterVars,
                   stopVars, lsVars, slbfgs, gamma_0,
                   x_k1, grad_psi_k1, psi_k1, phi_k1>>

\* the loop condition without the bound on tau
LsRepeat_CondOnly(cond, t, tau_min) == FGt(cond, Zero)

\* line 459: the loop condition
LsRepeat(cond, t, tau_min) == FGt(cond, Zero) /\ FGe(t, tau_min)

\* lines 453-459: phi_k1, tau /= 2, ls_cond and the loop condition
LsCond ==
    /\ pc = "ls_qub"
    /\ ~LsShrinkActive
    /\ \E ph \in {FBE(psi_k1, gamma_k1, norm_sq_p_k1,
                       grad_psi_k1_T_p_k1)} :
       \E t \in {FDiv(tau, Two)} :
       \E c \in {FSub(ph, FSub(phi_k, sigma_norm_gamma_inv_p_k))} :
           /\ phi_k1' = ph
           /\ tau' = t
           /\ ls_cond' = c
           /\ pc' = IF LsRepeat(c, t, params.tau_min) THEN "ls" ELSE "update"
    /\ UNCHANGED <<updates, reset_by, cands, argVars, outVars, s, flagVars, clock, k, iterVars,
                   stopVars, bufVars, gamma_0, sigma_norm_gamma_inv_p_k, q_k,
                   x_k1, xhat_k1, yhat_xhat_k1, p_k1, grad_psi_k1, psi_k1,
                   psihat_x_k1, grad_psi_k1_T_p_k1, norm_sq_p_k1,
                   L_k1, sigma_k1, gamma_k1>>

-----------------------------------------------------------------------------
(* lines 461-470: the failure counter and the L-BFGS update *)

\* the accepted updates counted instead of the rejected ones
Rejections_Inverted(ok) == IF ok THEN 1 ELSE 0

\* line 467: s.lbfgs_rejected += !update(...)
Rejections(ok) == IF ok THEN 0 ELSE 1

\* the failure counted in the first iteration as well
LsFailed_AnyIteration(t, tau_min, kk) == FLt(t, tau_min)

\* line 462: the line search failed
LsFailed(t, tau_min, kk) == FLt(t, tau_min) /\ kk # 0

Update ==
    /\ pc = "update"
    /\ \E failed \in {LsFailed(tau, params.tau_min, k)} :
       \E u \in {IF params.specialized_lbfgs
                 THEN SLBFGS_update(slbfgs, x_k1, grad_psi_k1, xhat_k1,
                                    problem.C, gamma_k1, params.lbfgs_mem)
                 ELSE LBFGS_update(lbfgs, FSub(x_k1, x_k), FSub(p_k, p_k1),
                                   params.lbfgs_mem)} :
           /\ s' = [s EXCEPT
                     !.linesearch_failures = IF failed THEN @ + 1 ELSE @,
                     !.lbfgs_rejected = @ + Rejections(u.ok)]
           /\ updates' = updates + 1
           /\ lbfgs' = IF params.specialized_lbfgs THEN lbfgs ELSE u.buf
           /\ slbfgs' = IF params.specialized_lbfgs THEN u.sl ELSE slbfgs
    /\ pc' = "advance"
    /\ UNCHANGED <<reset_by, cands, argVars, outVars, flagVars, clock, k, iterVars,
                   nextVars, stopVars, lsVars, gamma_0>>

-----------------------------------------------------------------------------
(* lines 472-487 and the loop header, line 254 *)

Advance ==
    /\ pc = "advance"
    /\ L_k' = L_k1 /\ sigma_k' = sigma_k1 /\ gamma_k' = gamma_k1
    /\ psi_k' = psi_k1 /\ psihat_x_k' = psihat_x_k1 /\ phi_k' = phi_k1
    /\ x_k' = x_k1 /\ x_k1' = x_k
    /\ xhat_k' = xhat_k1 /\ xhat_k1' = xhat_k
    /\ yhat_xhat_k' = yhat_xhat_k1 /\ yhat_xhat_k1' = yhat_xhat_k
    /\ p_k' = p_k1 /\ p_k1' = p_k
    /\ grad_psi_k' = grad_psi_k1 /\ grad_psi_k1' = grad_psi_k
    /\ grad_psi_k_T_p_k' = grad_psi_k1_T_p_k1
    /\ norm_sq_p_k' = norm_sq_p_k1
    /\ k' = k + 1
    /\ pc' = IF k + 1 <= params.max_iter THEN "stepA" ELSE "throw"
    /\ reset_by' = {}
    /\ cands' = <<>>
    /\ UNCHANGED <<updates, argVars, outVars, s, flagVars, clock, stopVars, lsVars,
                   bufVars, gamma_0, psi_k1, psihat_x_k1,
                   grad_psi_k1_T_p_k1, norm_sq_p_k1, phi_k1,
                   L_k1, sigma_k1, gamma_k1>>

-----------------------------------------------------------------------------

Next ==
    \/ Bootstrap
    \/ StepAShrink
    \/ StepAExit
    \/ StopTest
    \/ Poll
    \/ RequestStop
    \/ QuasiNewton
    \/ LsCandidate
    \/ LsShrink
    \/ LsCond
    \/ Update
    \/ Advance

Spec == Init /\ [][Next]_vars

-----------------------------------------------------------------------------
(* Properties *)

Returned     == pc = "done"
\* a return from inside the main loop (not the bootstrap's NotFinite return)
LoopReturned == pc = "done" /\ s.iterations >= 0

\* the stopping residual of the current iteration, recomputed from the state
ResidualNow ==
    calc_error_stop_crit(p_k, gamma_k,
        calc_grad_psi_from_yhat(problem, xhat_k, yhat_xhat_k), grad_psi_k)

\* psihat <= psi + grad^T p + 1/2 L ||p||^2
QubHolds(psihat, psi, gTp, L, nsq) ==
    FLe(psihat, FAdd(FAdd(psi, gTp), FMul(FMul(Half, L), nsq)))

\* C1: a Converged return reports the stopping residual of iteration
\* k = Stats.iterations, and that residual is at most the tolerance (so it is
\* neither above it nor NaN).
C1_ConvergedResidualBelowTolerance ==
    s.status = "Converged" =>
        /\ Returned
        /\ s.iterations = k
        /\ s.eps = eps_k
        /\ s.eps = ResidualNow
        /\ FLe(s.eps, eps)
        /\ ~IsNaN(s.eps) /\ ~FGt(s.eps, eps)

C1_Witness ==
    Returned /\ s.status = "Converged" /\ s.iterations = 2

\* C2: on every return, whatever the status, z and err_z are computed from
\* xhat_k, x = xhat_k, y = yhat(xhat_k) and Stats is filled.
C2_OutputsWrittenOnEveryReturn ==
    Returned =>
        /\ x = xhat_k
        /\ y = yhat_xhat_k
        /\ z = project(FAdd(Prob_g(problem, xhat_k), FDiv(y_in, Sigma)),
                       problem.D)
        /\ err_z = FSub(Prob_g(problem, xhat_k), z)
        /\ s.iterations = k
        /\ s.eps = eps_k
        /\ s.elapsed_time = time_elapsed
        /\ s.status # "Unknown"

\* C3: an iteration whose stopping residual is non-finite ends in that
\* iteration with status NotFinite, also at k = max_iter and past the deadline.
C3_NonFiniteResidualGivesNotFinite ==
    /\ (LoopReturned /\ ~IsFinite(eps_k)) => s.status = "NotFinite"
    /\ pc \in {"poll", "qn", "ls", "ls_qub", "update", "advance"}
           => IsFinite(eps_k)

\* C4: a NaN value of psi (f returned NaN) makes the solver return NotFinite
\* in that iteration; it never ends a quadratic-upper-bound loop and never
\* lets a line-search candidate be accepted.
C4_NaNPsiAborts ==
    /\ (pc \in {"stop", "poll", "qn"} /\ IsFinite(grad_psi_k))
           => ~(IsNaN(psi_k) \/ IsNaN(psihat_x_k))
    /\ (pc \in {"update", "advance"} /\ IsFinite(grad_psi_k1))
           => ~(IsNaN(psi_k1) \/ IsNaN(psihat_x_k1) \/ IsNaN(ls_cond))
    /\ (LoopReturned /\ IsFinite(grad_psi_k) /\ IsFinite(grad_hat_psi_k)
          /\ (IsNaN(psi_k) \/ IsNaN(psihat_x_k)))
           => s.status = "NotFinite"

\* C5: when the poll of iteration k is reached with the stop flag set, the
\* solver returns in iteration k with status Interrupted, Stats.eps = eps_k
\* and x, y, z, err_z written for xhat_k.
C5_InterruptedAtPoll ==
    [][ (pc = "poll" /\ stop_signal) =>
          /\ pc' = "done"
          /\ k' = k
          /\ s'.status = "Interrupted"
          /\ s'.iterations = k
          /\ s'.eps = eps_k
          /\ x' = xhat_k
          /\ y' = yhat_xhat_k
          /\ z' = project(FAdd(Prob_g(problem, xhat_k), FDiv(y_in, Sigma)),
                          problem.D)
          /\ err_z' = FSub(Prob_g(problem, xhat_k), z') ]_vars

C5_Witness ==
    Returned /\ s.status = "Interrupted" /\ s.iterations = 0 /\ x = xhat_k

\* the status the priority order of C6 gives, "none" when the iteration goes on
C6_Priority(e, kk, oot, flag) ==
    IF FLe(e, eps) THEN "Converged"
    ELSE IF oot THEN "MaxTime"
    ELSE IF kk = params.max_iter THEN "MaxIter"
    ELSE IF ~IsFinite(e) THEN "NotFinite"
    ELSE IF flag THEN "Interrupted"
    ELSE "none"

\* C6: the outcome of the stopping test of iteration k is fixed by the
\* priority Converged, MaxTime, MaxIter, NotFinite, Interrupted, continue.
C6_StatusPriority ==
    [][ /\ (pc = "stop" /\ pc' # "stop") =>
              IF C6_Priority(eps_k', k, out_of_time', FALSE) = "none"
              THEN pc' = "poll" /\ s' = s
              ELSE /\ pc' = "done"
                   /\ s'.status = C6_Priority(eps_k', k, out_of_time', FALSE)
        /\ (pc = "poll" /\ pc' # "poll") =>
              /\ eps_k' = eps_k /\ out_of_time' = out_of_time
              /\ IF C6_Priority(eps_k, k, out_of_time, stop_signal) = "none"
                 THEN pc' = "qn" /\ s' = s
                 ELSE /\ pc' = "done"
                      /\ s'.status =
                           C6_Priority(eps_k, k, out_of_time, stop_signal) ]_vars

C6_Witness ==
    /\ Returned /\ s.status = "MaxTime"
    /\ k = params.max_iter /\ ~IsFinite(eps_k)

\* L > 0, 0 < gamma <= gamma_0, gamma L = Lgamma_factor < 1 and
\* sigma = gamma (1 - gamma L) / 2 > 0
C7_Triple(L, gamma, sigma) ==
    /\ IsFinite(L) /\ FGt(L, Zero)
    /\ FGt(gamma, Zero) /\ FLe(gamma, gamma_0)
    /\ FMul(gamma, L) = params.Lipschitz.Lgamma_factor
    /\ FLt(FMul(gamma, L), One)
    /\ sigma = FDiv(FMul(gamma, FSub(One, FMul(gamma, L))), Two)
    /\ FGt(sigma, Zero)

\* C7: after the bootstrap, (L_k, gamma_k, sigma_k) satisfies C7_Triple in
\* every state, and so does the candidate triple inside the line search.
C7_StepSizeInvariant ==
    /\ (pc # "entry" /\ gamma_0 # Uninit)
           => C7_Triple(L_k, gamma_k, sigma_k)
    /\ pc \in {"ls_qub", "update", "advance"}
           => C7_Triple(L_k1, gamma_k1, sigma_k1)

\* an accepted step whose line search halved gamma_k1 after Step A halved
\* gamma_k
C7_Witness ==
    /\ pc = "advance"
    /\ FLt(gamma_k1, gamma_k) /\ FLt(gamma_k, gamma_0)

\* C8: the quadratic upper bound holds for the state carried forward by
\* every advance, and for what every shrink loop leaves behind.
C8_QuadraticUpperBound ==
    /\ (pc = "stepA" /\ k > 0)
           => QubHolds(psihat_x_k, psi_k, grad_psi_k_T_p_k, L_k, norm_sq_p_k)
    /\ (pc = "stop" /\ StepAActive)
           => QubHolds(psihat_x_k, psi_k, grad_psi_k_T_p_k, L_k, norm_sq_p_k)
    /\ (pc \in {"update", "advance"}
          /\ params.update_lipschitz_in_linesearch)
           => QubHolds(psihat_x_k1, psi_k1, grad_psi_k1_T_p_k1, L_k1,
                       norm_sq_p_k1)

\* C9: every accepted candidate satisfies ls_cond <= 0, so the FBE carried
\* across iterations does not increase.
C9_SufficientDecrease ==
    pc \in {"update", "advance"} =>
        /\ FLe(ls_cond, Zero)
        /\ FLe(phi_k1, FSub(phi_k, sigma_norm_gamma_inv_p_k))
        /\ FLe(phi_k1, phi_k)

\* C10: with C.lowerbound <= C.upperbound every xhat computed by calc_xhat
\* lies in C, whatever x; so does xhat_k at every stopping test and the x
\* written back by a Converged, MaxIter, MaxTime or Interrupted return.
C10_XhatInC ==
    FLe(problem.C.lowerbound, problem.C.upperbound) =>
        /\ pc \in {"stepA", "stop", "poll", "qn", "ls"}
               => InBox(xhat_k, problem.C)
        /\ pc \in {"ls_qub", "update", "advance"}
               => InBox(xhat_k1, problem.C)
        /\ (Returned /\ s.status \in {"Converged", "MaxIter", "MaxTime",
                                       "Interrupted"})
               => InBox(x, problem.C)

\* a Converged return whose iterate x_k lies outside C
C10_Witness ==
    /\ Returned /\ s.status = "Converged"
    /\ ~InBox(x_k, problem.C)
    /\ x = xhat_k /\ InBox(x, problem.C)

\* every pair of a buffer has <s, y> > 0, and the buffer holds at most
\* lbfgs_mem pairs
BufferSound(buf) ==
    /\ Len(buf) <= params.lbfgs_mem
    /\ \A i \in 1..Len(buf) :
           /\ IsFinite(buf[i].s) /\ IsFinite(buf[i].y)
           /\ FGt(Dot(buf[i].s, buf[i].y), Zero)

\* the pair passes the test of update: finite, <s, y> > eps_mach |y| |s|
PairAccepted(pr) ==
    /\ IsFinite(pr.s) /\ IsFinite(pr.y)
    /\ FGt(Dot(pr.s, pr.y), FMul(epsilon, FMul(Norm(pr.y), Norm(pr.s))))

\* C11: every pair held by either L-BFGS buffer has <s, y> > 0 and a buffer
\* never holds more than lbfgs_mem pairs; an update that is counted as
\* rejected leaves the buffers as they were, and one that is not has stored
\* a pair that passes the curvature test as the newest pair.
C11_StoredPairsPositiveCurvature ==
    /\ [](BufferSound(lbfgs) /\ BufferSound(slbfgs.buf))
    /\ [][ (pc = "update" /\ pc' = "advance") =>
             IF s'.lbfgs_rejected = s.lbfgs_rejected + 1
             THEN lbfgs' = lbfgs /\ slbfgs'.buf = slbfgs.buf
             ELSE /\ s'.lbfgs_rejected = s.lbfgs_rejected
                  /\ IF params.specialized_lbfgs
                     THEN /\ Len(slbfgs'.buf) > 0
                          /\ PairAccepted(slbfgs'.buf[Len(slbfgs'.buf)])
                          /\ lbfgs' = lbfgs
                     ELSE /\ Len(lbfgs') > 0
                          /\ lbfgs'[Len(lbfgs')] =
                                [s |-> FSub(x_k1, x_k), y |-> FSub(p_k, p_k1)]
                          /\ PairAccepted(lbfgs'[Len(lbfgs')])
                          /\ slbfgs'.buf = slbfgs.buf ]_vars

\* the second accepted update of a buffer of capacity one: the older pair
\* has been evicted
C11_Witness ==
    /\ pc = "advance" /\ k = 1 /\ ~params.specialized_lbfgs
    /\ params.lbfgs_mem = 1 /\ Len(lbfgs) = 1 /\ s.lbfgs_rejected = 0

\* the statuses whose return writes x, y, z and err_z
WritingStatus == {"Converged", "MaxIter", "MaxTime", "Interrupted"}

\* C12: on a return that writes outputs, z is the projection onto D of
\* g(x) + y_in / Sigma for the returned x = xhat_k and the multipliers as they
\* were on entry, err_z = g(x) - z, and z lies in D; before the return z and
\* err_z have not been touched (calc_zhat runs only on exit).
C12_SlackFromEntryMultipliers ==
    /\ (Returned /\ s.status \in WritingStatus) =>
           /\ x = xhat_k
           /\ z = project(FAdd(Prob_g(problem, x), FDiv(y_in, Sigma)),
                          problem.D)
           /\ err_z = FSub(Prob_g(problem, x), z)
           /\ InBox(z, problem.D)
           /\ y = yhat_xhat_k
    /\ ~Returned => (z = Uninit /\ err_z = Uninit /\ y = y_in)

\* a writing return where the projection onto D is active and y was
\* overwritten by a different yhat
C12_Witness ==
    /\ Returned /\ s.status \in WritingStatus /\ k > 0
    /\ y # y_in /\ y_in # Zero
    /\ err_z # Zero /\ IsFinite(err_z)

\* C13: the main loop returns from inside an iteration k <= max_iter: the
\* statement after the loop (the throw) is never reached, iteration max_iter
\* never gets past its termination test (no line search, no L-BFGS update),
\* and an in-loop return reports iterations <= max_iter.
C13_ReturnsWithinMaxIter ==
    /\ pc # "throw"
    /\ k <= params.max_iter
    /\ pc \in {"poll", "qn", "ls", "ls_qub", "update", "advance"}
           => k < params.max_iter
    /\ LoopReturned => (s.iterations = k /\ s.iterations <= params.max_iter)

\* the last iteration allowed, reached after max_iter > 0 accepted steps
C13_Witness ==
    /\ Returned /\ s.status = "MaxIter"
    /\ params.max_iter > 0 /\ s.iterations = params.max_iter
    /\ FGt(eps_k, eps)

\* C14: once the stop flag is set, in iteration stop_k, the solver gets at
\* most to the termination test of iteration stop_k + 1: it never starts the
\* quasi-Newton step or the line search of that iteration, so at most one
\* line search and one L-BFGS update follow the setting of the flag, and a
\* return after the flag was set is in iteration stop_k or stop_k + 1.
C14_CancellationWithinOneIteration ==
    stop_signal =>
        /\ stop_k <= k /\ k <= stop_k + 1
        /\ k = stop_k + 1 => pc \in {"stepA", "stop", "poll", "done"}
        /\ (LoopReturned /\ s.iterations = stop_k + 1)
               => s.status \in {"Converged", "MaxIter", "MaxTime",
                                "NotFinite", "Interrupted"}

\* the flag was set after the poll of iteration 0 and the solver returned
\* Interrupted at the poll of iteration 1
C14_Witness ==
    /\ Returned /\ s.status = "Interrupted"
    /\ stop_k = 0 /\ s.iterations = 1

\* C15: the Step A loop runs at k = 0 whatever the configuration, and at
\* k > 0 exactly when update_lipschitz_in_linesearch = false: where it runs
\* it is left only with the quadratic upper bound test false, and where it
\* does not run (k > 0, flag true) it changes nothing, so L_k, gamma_k,
\* sigma_k, xhat_k, p_k at the stopping test are those the advance took from
\* the accepted candidate.
C15_StepAOnlyWhereConfigured ==
    [][ /\ (pc = "stepA" /\ pc' = "stop"
             /\ (k = 0 \/ ~params.update_lipschitz_in_linesearch))
               => ~QubViolated(psihat_x_k, psi_k, grad_psi_k_T_p_k, L_k,
                               norm_sq_p_k)
        /\ (pc = "stepA" /\ k > 0 /\ params.update_lipschitz_in_linesearch)
               => /\ pc' \in {"stepA", "stop"}
                  /\ <<L_k, gamma_k, sigma_k, xhat_k, p_k, psihat_x_k>>' =
                         <<L_k, gamma_k, sigma_k, xhat_k, p_k, psihat_x_k>>
                  /\ lbfgs' = lbfgs
        /\ (pc = "advance" /\ pc' # "advance")
               => <<L_k, gamma_k, sigma_k, xhat_k, p_k>>' =
                      <<L_k1, gamma_k1, sigma_k1, xhat_k1, p_k1>> ]_vars

\* the stopping test of an iteration k > 0 with the flag true, using a step
\* size the line search of iteration k - 1 halved
C15_Witness ==
    /\ pc = "stop" /\ k > 0 /\ params.update_lipschitz_in_linesearch
    /\ FLt(gamma_k, gamma_0) /\ gamma_k = gamma_k1 /\ L_k = L_k1

\* C16: with specialized_lbfgs = false every halving of the step size after
\* the first iteration (a Step A shrink at k > 0, a shrink inside the line
\* search) leaves the L-BFGS buffer empty; with specialized_lbfgs = true a
\* halving leaves the specialized buffer as it was.
C16_ResetOnStepSizeHalving ==
    [][ /\ (pc = "stepA" /\ k > 0 /\ gamma_k' # gamma_k)
               => IF params.specialized_lbfgs
                  THEN slbfgs' = slbfgs
                  ELSE lbfgs' = <<>>
        /\ (pc = "ls_qub" /\ gamma_k1' # gamma_k1)
               => IF params.specialized_lbfgs
                  THEN slbfgs' = slbfgs
                  ELSE lbfgs' = <<>>
        /\ (pc = "stepA" /\ k = 0 /\ gamma_k' # gamma_k)
               => (lbfgs' = lbfgs /\ slbfgs' = slbfgs) ]_vars

\* a shrink in the line search has just emptied a buffer that held a pair
C16_Witness ==
    /\ pc = "ls_qub" /\ k > 0 /\ ~params.specialized_lbfgs
    /\ FLt(gamma_k1, gamma_k) /\ lbfgs = <<>> /\ s.lbfgs_rejected = 0

\* C17: the non-specialized buffer is reset during iteration k only if the
\* step size carried forward decreased in that iteration (gamma_k1 < gamma_k,
\* or gamma_k halved by Step A) or q was non-finite: a shrink at a rejected
\* candidate does not reset when the accepted candidate keeps gamma_k.
C17_ResetOnlyWhenCarriedStepDecreased ==
    (pc \in {"update", "advance"} /\ reset_by # {})
        => \/ FLt(gamma_k1, gamma_k)
           \/ "stepA" \in reset_by
           \/ "qn" \in reset_by

\* C17 as the code has it: lbfgs.reset() is called only together with a
\* halving of the step size (Step A at k > 0, or the shrink at any line
\* search candidate, accepted or not) or after a NaN direction, and a
\* buffer flushed at a rejected candidate stays flushed.
C17_ResetOnlyAtHalvingOrBadDirection ==
    /\ []((reset_by # {} /\ pc # "advance")
              => ~params.specialized_lbfgs /\ lbfgs = <<>>)
    /\ [][ ((reset_by' # reset_by /\ reset_by' # {})
              \/ (lbfgs # <<>> /\ lbfgs' = <<>>))
           => \/ /\ pc = "stepA" /\ k > 0
                 /\ gamma_k' = FDiv(gamma_k, Two)
                 /\ reset_by' = reset_by \cup {"stepA"}
              \/ /\ pc = "ls_qub"
                 /\ gamma_k1' = FDiv(gamma_k1, Two)
                 /\ reset_by' = reset_by \cup {"ls"}
              \/ /\ pc = "qn" /\ k > 0 /\ HasNaN(q_k')
                 /\ reset_by' = reset_by \cup {"qn"} ]_vars

C17_Witness ==
    /\ pc = "update" /\ k > 0 /\ ~params.specialized_lbfgs
    /\ reset_by = {"ls"} /\ gamma_k1 = gamma_k /\ lbfgs = <<>>
    /\ s.lbfgs_rejected = 0 /\ IsFinite(q_k)

\* C18: at every iteration k > 0 a direction q with a non-finite entry (NaN
\* or +-Inf) resets the active buffer, adds exactly one to lbfgs_failures,
\* sets tau to 0, and the only candidate is the prox step x_k1 = xhat_k.
C18_NonFiniteDirectionFallsBack ==
    [][ /\ (pc = "qn" /\ pc' = "ls" /\ k > 0 /\ ~IsFinite(q_k'))
            => /\ tau' = Zero
               /\ s'.lbfgs_failures = s.lbfgs_failures + 1
               /\ IF params.specialized_lbfgs
                  THEN slbfgs' = SLBFGS_reset(slbfgs)
                  ELSE lbfgs' = <<>>
        /\ (pc = "ls" /\ pc' = "ls_qub" /\ k > 0 /\ ~IsFinite(q_k))
            => x_k1' = xhat_k ]_vars

\* C19: at k = 0 apply is not called (q_k stays unassigned and unread),
\* tau = 0, the line search evaluates exactly one candidate, the prox step
\* x_1 = xhat_0, and no failure counter is incremented.
C19_FirstIterationProxOnly ==
    /\ []((k = 0 /\ pc \in {"ls", "ls_qub", "update", "advance"}) =>
            /\ q_k = Uninit
            /\ s.linesearch_failures = 0 /\ s.lbfgs_failures = 0
            /\ IF pc = "ls"
               THEN cands = <<>> /\ tau = Zero
               ELSE cands = <<[tau |-> Zero, prox |-> TRUE]>>)
    /\ [][ /\ (pc = "qn" /\ pc' = "ls" /\ k = 0)
               => UNCHANGED <<s, bufVars, q_k>>
           /\ (pc = "ls" /\ pc' = "ls_qub" /\ k = 0)
               => x_k1' = xhat_k /\ x_k1' = FAdd(x_k, p_k)
           /\ (pc = "ls_qub" /\ pc' # "ls_qub" /\ k = 0)
               => pc' = "update" ]_vars

C19_Witness ==
    /\ pc = "advance" /\ k = 0 /\ Len(cands) = 1
    /\ FGt(ls_cond, Zero) /\ x_k1 # x_k /\ IsFinite(x_k1)

\* the number of halvings of t needed to fall below tau_min
RECURSIVE Halvings(_, _)
Halvings(t, tau_min) ==
    IF FLt(t, tau_min) THEN 0 ELSE 1 + Halvings(FDiv(t, Two), tau_min)

\* C20: the line search tries tau = 1, 1/2, 1/4, ... (from tau = 1 when
\* k > 0 and q is valid) while tau/2 >= tau_min, the prox candidate is
\* evaluated at most once and only as the last candidate, with xhat_k still
\* the prox point of x_k, and there are at most Halvings(1, tau_min) + 1
\* candidates.
C20_LineSearchCandidates ==
    /\ Len(cands) <= Halvings(One, params.tau_min) + 1
    /\ \A i \in 1..Len(cands) :
          /\ cands[i].prox = FLt(FDiv(cands[i].tau, Two), params.tau_min)
          /\ cands[i].prox => i = Len(cands) /\ pc # "ls"
          /\ i > 1 => cands[i].tau = FDiv(cands[i - 1].tau, Two)
          /\ i = 1 => cands[i].tau =
                        (IF k > 0 /\ ~HasNaN(q_k) THEN One ELSE Zero)
    /\ pc = "ls" => xhat_k = FAdd(x_k, p_k)
    /\ pc = "update" => cands # <<>> /\ tau = FDiv(cands[Len(cands)].tau, Two)

C20_Witness ==
    /\ pc = "update" /\ k > 0 /\ IsFinite(q_k)
    /\ Len(cands) = 3 /\ cands[3].prox /\ ~cands[2].prox
    /\ xhat_k # FAdd(x_k, p_k)

\* C21: linesearch_failures grows by one in iteration k iff k > 0 and the
\* accepted candidate is the prox step x_k1 = xhat_k (tau < tau_min on loop
\* exit); an accepted quasi-Newton mix (tau/2 >= tau_min) never counts, and
\* the counter never changes at k = 0 nor outside the update.
C21_LineSearchFailureCounted ==
    [][ /\ (pc = "update" /\ pc' = "advance") =>
              /\ cands # <<>>
              /\ cands[Len(cands)].prox = FLt(tau, params.tau_min)
              /\ cands[Len(cands)].prox => x_k1 = FAdd(x_k, p_k)
              /\ ~cands[Len(cands)].prox =>
                     /\ FGe(FDiv(cands[Len(cands)].tau, Two), params.tau_min)
                     /\ x_k1 = FAdd(FAdd(x_k, FMul(FSub(One,
                                  cands[Len(cands)].tau), p_k)),
                                  FMul(cands[Len(cands)].tau, q_k))
              /\ s'.linesearch_failures = s.linesearch_failures +
                    (IF k > 0 /\ cands[Len(cands)].prox THEN 1 ELSE 0)
        /\ ~(pc = "update" /\ pc' = "advance") =>
              s'.linesearch_failures = s.linesearch_failures ]_vars

C21_Witness ==
    /\ pc = "advance" /\ k > 0 /\ s.linesearch_failures = 1
    /\ IsFinite(q_k) /\ Len(cands) = 3 /\ cands[3].prox
    /\ params.tau_min = Q(1, 4)

\* C22: every iteration that does not terminate attempts exactly one L-BFGS
\* update, after the line search has accepted a candidate and before the
\* advance, with s = x_k1 - x_k and y = p_k - p_k1 of the accepted candidate
\* (non-specialized); lbfgs_rejected grows by one exactly when the update
\* returns false, so lbfgs_rejected <= Stats.iterations on return.
C22_OneUpdatePerIteration ==
    /\ [](/\ updates = k + (IF pc = "advance" THEN 1 ELSE 0)
          /\ s.lbfgs_rejected <= updates
          /\ LoopReturned => s.lbfgs_rejected <= s.iterations)
    /\ [][ /\ (pc = "update" /\ pc' = "advance") =>
                 /\ cands # <<>> /\ x_k1 # Uninit /\ p_k1 # Uninit
                 /\ updates' = updates + 1
                 /\ IF params.specialized_lbfgs
                    THEN /\ lbfgs' = lbfgs
                         /\ s'.lbfgs_rejected \in
                               {s.lbfgs_rejected, s.lbfgs_rejected + 1}
                         /\ s'.lbfgs_rejected = s.lbfgs_rejected + 1
                               => slbfgs'.buf = slbfgs.buf
                    ELSE IF LBFGS_accepts(FSub(x_k1, x_k), FSub(p_k, p_k1))
                    THEN /\ lbfgs' = LBFGS_push(lbfgs, FSub(x_k1, x_k),
                                         FSub(p_k, p_k1), params.lbfgs_mem)
                         /\ s'.lbfgs_rejected = s.lbfgs_rejected
                    ELSE /\ lbfgs' = lbfgs
                         /\ s'.lbfgs_rejected = s.lbfgs_rejected + 1
           /\ ~(pc = "update" /\ pc' = "advance") =>
                 /\ updates' = updates
                 /\ s'.lbfgs_rejected = s.lbfgs_rejected ]_vars

C22_Witness ==
    /\ pc = "advance" /\ k = 1 /\ ~params.specialized_lbfgs
    /\ updates = 2 /\ s.lbfgs_rejected = 2 /\ IsFinite(q_k)

\* grad psi(x_k) evaluated afresh with the multipliers of the call
GradPsiAt(xx) == calc_grad_psi(problem, xx, y_in, Sigma)

\* C23: cache coherence at the stopping test of every iteration, on every
\* path reaching it: xhat_k = P_C(x_k - gamma_k grad psi(x_k)),
\* p_k = xhat_k - x_k, grad_psi_k = grad psi(x_k), psihat_x_k = psi(xhat_k),
\* norm_sq_p_k = |p_k|^2, grad_psi_k_T_p_k = <grad psi(x_k), p_k>,
\* yhat_xhat_k = yhat(xhat_k); so eps_k = |p_k/gamma_k + grad psi(xhat_k)
\* - grad psi(x_k)|_inf and the y written on exit is yhat at the returned x.
C23_CacheCoherentAtStoppingTest ==
    /\ pc = "stop" =>
          /\ xhat_k = project(FSub(x_k, FMul(gamma_k, GradPsiAt(x_k))),
                              problem.C)
          /\ p_k = FSub(xhat_k, x_k)
          /\ grad_psi_k = GradPsiAt(x_k)
          /\ psihat_x_k = calc_psi_yhat(problem, xhat_k, y_in, Sigma).psi
          /\ norm_sq_p_k = SquaredNorm(p_k)
          /\ grad_psi_k_T_p_k = Dot(GradPsiAt(x_k), p_k)
          /\ yhat_xhat_k = calc_psi_yhat(problem, xhat_k, y_in, Sigma).yhat
    /\ pc = "poll" =>
          eps_k = NormInf(FAdd(FMul(FDiv(One, gamma_k), p_k),
                               FSub(GradPsiAt(xhat_k), GradPsiAt(x_k))))
    /\ (Returned /\ s.status \in WritingStatus) =>
          y = calc_psi_yhat(problem, x, y_in, Sigma).yhat

\* C24: whenever the line search of iteration k starts, the merit value
\* phi_k used in ls_cond is psi_k + <grad psi(x_k), p_k> + |p_k|^2/(2 gamma_k)
\* for the current gamma_k and p_k, also after Step A has halved gamma_k.
C24_MeritValueCurrent ==
    pc \in {"qn", "ls", "ls_qub"} =>
        phi_k = FBE(psi_k, gamma_k, norm_sq_p_k, grad_psi_k_T_p_k)

\* C25: every NotFinite return leaves y, z and err_z as they were on entry and
\* leaves x at the perturbed point x0 + h, h = max(delta, eps_L |x0|), which
\* is not the entry value; the bootstrap NotFinite return assigns nothing of
\* the statistics but the status, the main-loop one assigns iterations and eps.
C25_NotFiniteLeavesPerturbedX ==
    (Returned /\ s.status = "NotFinite") =>
        /\ y = y_in /\ z = Uninit /\ err_z = Uninit
        /\ x = FAdd(x_in, Fmax(params.Lipschitz.delta,
                               FAbs(FMul(params.Lipschitz.eps, x_in))))
        /\ x # x_in
        /\ IF gamma_0 = Uninit
           THEN s = [NoStats EXCEPT !.status = "NotFinite"]
           ELSE /\ s.iterations = k /\ s.eps = eps_k /\ ~IsFinite(eps_k)
                /\ s.elapsed_time = time_elapsed

C25_Witness ==
    /\ Returned /\ s.status = "NotFinite" /\ gamma_0 # Uninit
    /\ k > 0 /\ IsFinite(xhat_k) /\ x # xhat_k /\ x # x_k
    /\ FGt(FAbs(FMul(params.Lipschitz.eps, x_in)), params.Lipschitz.delta)

C25_WitnessBootstrap ==
    Returned /\ s.status = "NotFinite" /\ gamma_0 = Uninit
C27_FailureCountersOrdered ==
    /\ [](/\ pc = "entry" => s.lbfgs_failures = 0 /\ s.linesearch_failures = 0
          /\ pc \in {"stepA", "stop", "poll", "qn", "done"} =>
                /\ s.lbfgs_failures <= s.linesearch_failures
                /\ s.linesearch_failures <= (IF k > 1 THEN k - 1 ELSE 0)
          /\ pc \in {"ls", "ls_qub", "update"} =>
                /\ s.lbfgs_failures <= s.linesearch_failures
                                         + (IF QnInvalid(k, q_k) THEN 1 ELSE 0)
                /\ QnInvalid(k, q_k) => tau = Zero
          /\ pc = "advance" =>
                /\ s.lbfgs_failures <= s.linesearch_failures
                /\ s.linesearch_failures <= k)
    /\ [][ /\ s'.lbfgs_failures # s.lbfgs_failures =>
                /\ pc = "qn" /\ pc' = "ls" /\ k > 0 /\ HasNaN(q_k')
                /\ s'.lbfgs_failures = s.lbfgs_failures + 1
                /\ s'.linesearch_failures = s.linesearch_failures
           /\ s'.linesearch_failures # s.linesearch_failures =>
                /\ pc = "update" /\ pc' = "advance" /\ k > 0
                /\ s'.linesearch_failures = s.linesearch_failures + 1
                /\ s'.lbfgs_failures = s.lbfgs_failures
           /\ (pc = "update" /\ pc' = "advance" /\ QnInvalid(k, q_k)) =>
                s'.linesearch_failures = s.linesearch_failures + 1
           /\ pc' \in {"ls", "ls_qub", "update"} /\ pc # "qn" =>
                q_k' = q_k /\ k' = k ]_vars

C27_Witness ==
    /\ pc = "stop" /\ k = 2
    /\ s.lbfgs_failures = 1 /\ s.linesearch_failures = 1

====
